---- MODULE Spec2Model ----
(***************************************************************************)
(* Model of the Stitch backend core: backend/utils/validation.py           *)
(* (validate_architecture, validate_hyperparams) and                       *)
(* backend/services/model_service.py (build_model, prepare_dataloaders).   *)
(*                                                                         *)
(* Python values are records [k, n, d, s]: k is the Python type, n/d the   *)
(* number (an int is n/1, a float the rational n/d, with d = 0 for inf and *)
(* nan), s the text of a str.  Mappings are TLA+ functions from key        *)
(* strings to values.                                                      *)
(***************************************************************************)
EXTENDS Integers, Sequences, FiniteSets, TLC

VARIABLES
    raw,        \* payload of the last validate_architecture call
    archOut,    \* its outcome
    reOut,      \* outcome of validate_architecture applied to its own result
    modelOut,   \* outcome of build_model on the validated architecture
    hpIn,       \* payload of the last validate_hyperparams call
    hpOut,      \* its outcome
    dlIn,       \* arguments of the last prepare_dataloaders call
    dlOut,      \* its outcome
    heap,       \* the mutable objects: DEFAULT_HYPERPARAMS, its optimizer, a list
                \* the caller owns, and the records the calls returned
    results,    \* addresses of the records validate_hyperparams returned
    lastEmpty   \* outcome of validate_hyperparams({}) since the last mutation

vars == <<raw, archOut, reOut, modelOut, hpIn, hpOut, dlIn, dlOut,
          heap, results, lastEmpty>>

archVars == <<raw, archOut, reOut, modelOut>>
hpVars   == <<hpIn, hpOut>>
dlVars   == <<dlIn, dlOut>>
heapVars == <<heap, results, lastEmpty>>

(***************************************************************************)
(* Python values                                                           *)
(***************************************************************************)
IntV(i)      == [k |-> "int",   n |-> i, d |-> 1, s |-> ""]
BigIntV      == [k |-> "int",   n |-> 0, d |-> 0, s |-> "10**400"]
FloatV(a, b) == [k |-> "float", n |-> a, d |-> b, s |-> ""]
InfV         == [k |-> "float", n |-> 1, d |-> 0, s |-> ""]
NanV         == [k |-> "float", n |-> 0, d |-> 0, s |-> ""]
StrV(t)      == [k |-> "str",   n |-> 0, d |-> 1, s |-> t]
BoolV(b)     == [k |-> "bool",  n |-> IF b THEN 1 ELSE 0, d |-> 1, s |-> ""]
NoneV        == [k |-> "none",  n |-> 0, d |-> 1, s |-> ""]
ListV        == [k |-> "list",  n |-> 0, d |-> 1, s |-> "[1]"]
DictV        == [k |-> "dict",  n |-> 0, d |-> 1, s |-> "{'a': 1}"]
\* marks a key that a mapping does not hold
Absent       == [k |-> "absent", n |-> 0, d |-> 1, s |-> ""]

Ok(v)   == [ok |-> TRUE,  v |-> v,      err |-> ""]
Err(e)  == [ok |-> FALSE, v |-> Absent, err |-> e]

\* integer quotient rounded toward zero, as int() rounds a float
Trunc(a, b) == IF a >= 0 THEN a \div b ELSE -((-a) \div b)

\* the str literals int() accepts (surrounding blanks are stripped)
IntLiteral(t) ==
    CASE t = "0"   -> Ok(IntV(0))
      [] t = "3"   -> Ok(IntV(3))
      [] t = "5"   -> Ok(IntV(5))
      [] t = " 7 " -> Ok(IntV(7))
      [] t = "-2"  -> Ok(IntV(-2))
      [] OTHER     -> Err("ValueError")

\* the str literals float() accepts
FloatLiteral(t) ==
    CASE t = "0.5"  -> Ok(FloatV(1, 2))
      [] t = "2.5"  -> Ok(FloatV(5, 2))
      [] t = "0.01" -> Ok(FloatV(1, 100))
      [] t = "inf"  -> Ok(InfV)
      [] t = "nan"  -> Ok(NanV)
      [] OTHER      -> IF IntLiteral(t).ok
                       THEN Ok(FloatV(IntLiteral(t).v.n, 1))
                       ELSE Err("ValueError")

\* int(v)
PyInt(v) ==
    CASE v.k = "int"   -> Ok(v)
      [] v.k = "bool"  -> Ok(IntV(v.n))
      [] v.k = "float" -> IF v.d # 0 THEN Ok(IntV(Trunc(v.n, v.d)))
                          ELSE IF v.n = 0 THEN Err("ValueError")
                          ELSE Err("OverflowError")
      [] v.k = "str"   -> IntLiteral(v.s)
      [] OTHER         -> Err("TypeError")

\* float(v)
PyFloat(v) ==
    CASE v.k = "int"   -> IF v.d = 0 THEN Err("OverflowError")
                          ELSE Ok(FloatV(v.n, 1))
      [] v.k = "bool"  -> Ok(FloatV(v.n, 1))
      [] v.k = "float" -> Ok(v)
      [] v.k = "str"   -> FloatLiteral(v.s)
      [] OTHER         -> Err("TypeError")

\* repr of the floats the payloads carry
FloatRepr(v) ==
    CASE v = FloatV(1, 2)   -> "0.5"
      [] v = FloatV(5, 2)   -> "2.5"
      [] v = FloatV(1, 100) -> "0.01"
      [] v = InfV           -> "inf"
      [] v = NanV           -> "nan"
      [] OTHER              -> ToString(v.n) \o ".0"

\* str(v)
PyStr(v) ==
    CASE v.k = "str"   -> v.s
      [] v.k = "int"   -> IF v.d = 0 THEN v.s ELSE ToString(v.n)
      [] v.k = "bool"  -> IF v.n = 1 THEN "True" ELSE "False"
      [] v.k = "none"  -> "None"
      [] v.k = "float" -> FloatRepr(v)
      [] OTHER         -> v.s

\* str.lower()
PyLower(t) ==
    CASE t = "Linear"  -> "linear"
      [] t = "LINEAR"  -> "linear"
      [] t = "ReLU"    -> "relu"
      [] t = "Sigmoid" -> "sigmoid"
      [] t = "Tanh"    -> "tanh"
      [] t = "SoftMax" -> "softmax"
      [] t = "Swish"   -> "swish"
      [] t = "SGD"     -> "sgd"
      [] t = "Adam"    -> "adam"
      [] t = "RMSprop" -> "rmsprop"
      [] t = "MSE"     -> "mse"
      [] t = "None"    -> "none"
      [] t = "True"    -> "true"
      [] t = "False"   -> "false"
      [] OTHER         -> t

\* bool(v): Python truthiness
PyBool(v) ==
    CASE v.k = "none"  -> FALSE
      [] v.k = "str"   -> v.s # ""
      [] v.k = "float" -> ~(v.n = 0 /\ v.d # 0)
      [] v.k = "int"   -> ~(v.n = 0 /\ v.d # 0)
      [] v.k = "bool"  -> v.n = 1
      [] OTHER         -> TRUE

IsInt(v)   == v.k = "int"
IsFloat(v) == v.k = "float"
IsStr(v)   == v.k = "str"
IsBool(v)  == v.k = "bool"

(***************************************************************************)
(* validation.py: validate_architecture                                    *)
(***************************************************************************)
MNIST_INPUT_SIZE == 784

\* a list object whose items the payload record keeps in `elems`
SeqV == [k |-> "seq", n |-> 0, d |-> 1, s |-> ""]

\* dict.get(key, default) on a key whose stored value is v
Get(v, dflt) == IF v = Absent THEN dflt ELSE v

\* a layer entry that is a mapping with (some of) the keys type, in, out
MkLayer(t, i, o) == [isDict |-> TRUE, val |-> Absent, type |-> t, in |-> i, out |-> o]
\* a layer entry that is not a mapping
NonDict(v) == [isDict |-> FALSE, val |-> v, type |-> Absent, in |-> Absent, out |-> Absent]

\* an architecture payload that is a mapping
MkArch(isz, lv, es) == [isDict |-> TRUE, val |-> Absent, input_size |-> isz,
                        layers |-> lv, elems |-> es]
\* an architecture payload that is not a mapping
NonDictArch(v) == [isDict |-> FALSE, val |-> v, input_size |-> Absent,
                   layers |-> Absent, elems |-> <<>>]
NoArch == NonDictArch(Absent)

ArchOk(a)   == [status |-> "ok", value |-> a]
ArchErr(e)  == [status |-> e,    value |-> NoArch]
NotRun      == ArchErr("none")

\* an except (TypeError, ValueError) clause that re-raises ValueError:
\* what leaves it when the guarded block raised e
ExceptTypeValue(e) == IF e \in {"TypeError", "ValueError"} THEN "ValueError" ELSE e

\* `payload.get("layers") or []`, then `not layers`
LayersFalsy(p) ==
    LET lv == Get(p.layers, NoneV)
    IN  IF lv = SeqV THEN Len(p.elems) = 0 ELSE ~PyBool(lv)

\* what `for layer in layers` iterates over: the items of a list, the
\* characters of a str, the keys of a dict; anything else is not iterable
IterLayers(p) ==
    CASE p.layers = SeqV       -> [ok |-> TRUE, items |-> p.elems]
      [] p.layers = StrV("ab") -> [ok |-> TRUE,
                                   items |-> <<NonDict(StrV("a")), NonDict(StrV("b"))>>]
      [] p.layers = DictV      -> [ok |-> TRUE, items |-> <<NonDict(StrV("a"))>>]
      [] OTHER                 -> [ok |-> FALSE, items |-> <<>>]

\* line 37
LayerType(layer) == PyLower(PyStr(Get(layer.type, StrV("linear"))))

\* line 39
InDim(layer, prev_out) == Get(layer.in, prev_out)

\* line 40
OutDim(layer, in_dim) == Get(layer.out, in_dim)

NextPrevOutStale(prev_out, out_dim) == prev_out
\* line 47
NextPrevOut(prev_out, out_dim) == out_dim

SanitizedLinearSwapped(in_dim, out_dim) == MkLayer(StrV("linear"), out_dim, in_dim)
\* line 46
SanitizedLinear(in_dim, out_dim) == MkLayer(StrV("linear"), in_dim, out_dim)

SanitizedOtherRaw(layer, layer_type) == MkLayer(Get(layer.type, StrV("linear")), Absent, Absent)
\* line 49
SanitizedOther(layer, layer_type) == MkLayer(StrV(layer_type), Absent, Absent)

\* lines 33-49: the loop over the layers, from item i on
RECURSIVE LoopLayers(_, _, _, _)
LoopLayers(items, i, prev_out, sanitized_layers) ==
    IF i > Len(items) THEN [status |-> "ok", layers |-> sanitized_layers]
    ELSE LET layer == items[i] IN
      IF ~layer.isDict THEN [status |-> "ValueError", layers |-> <<>>]
      ELSE LET layer_type == LayerType(layer) IN
        IF layer_type = "linear"
        THEN LET in_dim  == InDim(layer, prev_out)
                 out_dim == OutDim(layer, in_dim)
                 ci      == PyInt(in_dim)
                 co      == PyInt(out_dim)
             IN  IF ~ci.ok THEN [status |-> ExceptTypeValue(ci.err), layers |-> <<>>]
                 ELSE IF ~co.ok THEN [status |-> ExceptTypeValue(co.err), layers |-> <<>>]
                 ELSE LoopLayers(items, i + 1, NextPrevOut(prev_out, co.v),
                                 Append(sanitized_layers, SanitizedLinear(ci.v, co.v)))
        ELSE LoopLayers(items, i + 1, prev_out,
                        Append(sanitized_layers, SanitizedOther(layer, layer_type)))

\* lines 16-51
validate_architecture(payload) ==
    IF ~payload.isDict THEN ArchErr("ValueError")
    ELSE IF LayersFalsy(payload) THEN ArchErr("ValueError")
    ELSE LET input_size == PyInt(Get(payload.input_size, IntV(MNIST_INPUT_SIZE))) IN
      IF ~input_size.ok THEN ArchErr(ExceptTypeValue(input_size.err))
      ELSE LET it == IterLayers(payload) IN
        IF ~it.ok THEN ArchErr("TypeError")
        ELSE LET r == LoopLayers(it.items, 1, input_size.v, <<>>) IN
          IF r.status # "ok" THEN ArchErr(r.status)
          ELSE ArchOk(MkArch(input_size.v, SeqV, r.layers))

(***************************************************************************)
(* model_service.py: build_model                                           *)
(***************************************************************************)
Prim(op, a, b) == [op |-> op, a |-> a, b |-> b]

KnownLayerTypes == {"linear", "relu", "sigmoid", "tanh", "softmax"}

\* lines 11-23: the primitive one layer_spec maps to
LayerPrim(layer_spec) ==
    LET layer_type == PyLower(PyStr(layer_spec.type)) IN
    CASE layer_type = "linear"  -> Ok(Prim("Linear", layer_spec.in, layer_spec.out))
      [] layer_type = "relu"    -> Ok(Prim("ReLU", Absent, Absent))
      [] layer_type = "sigmoid" -> Ok(Prim("Sigmoid", Absent, Absent))
      [] layer_type = "tanh"    -> Ok(Prim("Tanh", Absent, Absent))
      [] layer_type = "softmax" -> Ok(Prim("Softmax", IntV(1), Absent))
      [] OTHER                  -> Err("ValueError")

RECURSIVE BuildLoop(_, _, _)
BuildLoop(specs, i, layers) ==
    IF i > Len(specs) THEN [status |-> "ok", prims |-> layers]
    ELSE LET p == LayerPrim(specs[i]) IN
         IF ~p.ok THEN [status |-> p.err, prims |-> <<>>]
         ELSE BuildLoop(specs, i + 1, Append(layers, p.v))

\* lines 8-24
build_model(architecture) == BuildLoop(architecture.elems, 1, <<>>)

NoModel == [status |-> "none", prims |-> <<>>]

(***************************************************************************)
(* validation.py: DEFAULT_HYPERPARAMS and validate_hyperparams             *)
(*                                                                         *)
(* A hyperparameter record is [top, optimizer]: `top` maps the seven       *)
(* scalar keys to their values, `optimizer` is the nested mapping.         *)
(***************************************************************************)
TopKeys == {"epochs", "batch_size", "train_split", "shuffle", "loss", "seed",
            "max_samples"}

\* lines 4-13
DEFAULT_HYPERPARAMS ==
    [top |-> [epochs      |-> IntV(5),
              batch_size  |-> IntV(64),
              loss        |-> StrV("cross_entropy"),
              seed        |-> NoneV,
              train_split |-> FloatV(9, 10),
              shuffle     |-> BoolV(TRUE),
              max_samples |-> IntV(4096)],
     optimizer |-> [type |-> StrV("sgd"), lr |-> FloatV(1, 10),
                    momentum |-> FloatV(0, 1)]]

\* json.dumps of a scalar: the JSON token it is written as
JsonDumpScalar(v) ==
    CASE v.k = "int"   -> [j |-> "integer", n |-> v.n, d |-> v.d, s |-> v.s]
      [] v.k = "float" -> [j |-> "real",    n |-> v.n, d |-> v.d, s |-> ""]
      [] v.k = "str"   -> [j |-> "string",  n |-> 0,   d |-> 1,   s |-> v.s]
      [] v.k = "bool"  -> [j |-> IF v.n = 1 THEN "true" ELSE "false",
                           n |-> 0, d |-> 1, s |-> ""]
      [] OTHER         -> [j |-> "null",    n |-> 0,   d |-> 1,   s |-> ""]

JsonLoadScalarNullAsText(t) ==
    CASE t.j = "integer" -> [k |-> "int",   n |-> t.n, d |-> t.d, s |-> t.s]
      [] t.j = "real"    -> [k |-> "float", n |-> t.n, d |-> t.d, s |-> ""]
      [] t.j = "string"  -> StrV(t.s)
      [] t.j = "true"    -> BoolV(TRUE)
      [] t.j = "false"   -> BoolV(FALSE)
      [] OTHER           -> StrV("null")
\* json.loads of a scalar token
JsonLoadScalar(t) ==
    CASE t.j = "integer" -> [k |-> "int",   n |-> t.n, d |-> t.d, s |-> t.s]
      [] t.j = "real"    -> [k |-> "float", n |-> t.n, d |-> t.d, s |-> ""]
      [] t.j = "string"  -> StrV(t.s)
      [] t.j = "true"    -> BoolV(TRUE)
      [] t.j = "false"   -> BoolV(FALSE)
      [] OTHER           -> NoneV

\* json.dumps / json.loads of a hyperparameter record (line 60)
JsonDumps(h) ==
    [top       |-> [key \in DOMAIN h.top |-> JsonDumpScalar(h.top[key])],
     optimizer |-> [key \in DOMAIN h.optimizer |-> JsonDumpScalar(h.optimizer[key])]]
JsonLoads(doc) ==
    [top       |-> [key \in DOMAIN doc.top |-> JsonLoadScalar(doc.top[key])],
     optimizer |-> [key \in DOMAIN doc.optimizer |-> JsonLoadScalar(doc.optimizer[key])]]

\* a payload that is a mapping: its scalar keys, and its `optimizer` key,
\* which is absent ("absent"), a mapping ("dict", held in opt) or another
\* value ("other", held in optVal)
HpDict(top, optKind, opt, optVal) ==
    [kind |-> "dict", val |-> Absent, top |-> top, optKind |-> optKind,
     opt |-> opt, optVal |-> optVal]
\* a payload that is None (v = NoneV) or another non-mapping
HpNonDict(v) ==
    [kind |-> IF v = NoneV THEN "none" ELSE "other", val |-> v, top |-> <<>>,
     optKind |-> "absent", opt |-> <<>>, optVal |-> Absent]

NoHp == [top |-> <<>>, optimizer |-> <<>>]
HpOk(h)  == [status |-> "ok", value |-> h]
HpErr(e) == [status |-> e,    value |-> NoHp]

\* lines 62-100: the coercion of the top-level key `key` holding v
CoerceTop(key, v) ==
    CASE key \in {"epochs", "batch_size", "max_samples"} -> PyInt(v)
      [] key = "train_split" -> PyFloat(v)
      [] key = "shuffle"     -> Ok(BoolV(PyBool(v)))
      [] key = "loss"        -> Ok(StrV(PyStr(v)))
      [] key = "seed"        -> IF v = NoneV THEN Ok(NoneV) ELSE PyInt(v)

\* the order in which lines 62-100 visit the top-level keys
TopOrder == <<"epochs", "batch_size", "train_split", "shuffle", "loss", "seed",
              "max_samples">>

\* lines 62-100, from the i-th key on
RECURSIVE MergeTop(_, _, _)
MergeTop(payload, i, top) ==
    IF i > Len(TopOrder) THEN [status |-> "ok", top |-> top]
    ELSE LET key == TopOrder[i] IN
      IF key \notin DOMAIN payload.top THEN MergeTop(payload, i + 1, top)
      ELSE LET c == CoerceTop(key, payload.top[key]) IN
        IF ~c.ok THEN [status |-> ExceptTypeValue(c.err), top |-> top]
        ELSE MergeTop(payload, i + 1, [top EXCEPT ![key] = c.v])

\* d[key] = v on a mapping d
SetKey(d, key, v) == [x \in DOMAIN d \cup {key} |-> IF x = key THEN v ELSE d[x]]

\* lines 104-106: the payload's optimizer keys over a copy of the default ones
MergeOptimizer(D, optimizer) ==
    [key \in DOMAIN D.optimizer \cup DOMAIN optimizer |->
        IF key \in DOMAIN optimizer THEN optimizer[key]
        ELSE D.optimizer[key]]

\* line 110
OptType(D, opt_cfg) ==
    PyLower(PyStr(IF "type" \in DOMAIN opt_cfg THEN opt_cfg["type"]
                  ELSE D.optimizer["type"]))

\* lines 111-128: float() of one optimizer key, replaced by `fallback` when
\* float() raises TypeError or ValueError
CoerceOpt(st, key, fallback) ==
    IF st.status # "ok" \/ key \notin DOMAIN st.cfg THEN st
    ELSE LET c == PyFloat(st.cfg[key]) IN
      IF c.ok THEN [st EXCEPT !.cfg[key] = c.v]
      ELSE IF c.err \in {"TypeError", "ValueError"}
           THEN [st EXCEPT !.cfg[key] = fallback]
           ELSE [st EXCEPT !.status = c.err]

\* line 123
AdamBeta1 == FloatV(9, 10)
AdamBeta2 == FloatV(999, 1000)
AdamEps   == FloatV(1, 100000000)

\* lines 109-128
NormalizeOptimizer(D, cfg) ==
    LET typed == SetKey(cfg, "type", StrV(OptType(D, cfg)))
        st0   == [status |-> "ok", cfg |-> typed]
        st1   == CoerceOpt(st0, "lr", PyFloat(D.optimizer["lr"]).v)
    IN  IF typed["type"].s = "sgd"
        THEN CoerceOpt(st1, "momentum",
                       PyFloat(Get(IF "momentum" \in DOMAIN D.optimizer
                                   THEN D.optimizer["momentum"] ELSE Absent,
                                   FloatV(0, 1))).v)
        ELSE IF typed["type"].s = "adam"
        THEN CoerceOpt(CoerceOpt(CoerceOpt(st1, "beta1", AdamBeta1),
                                 "beta2", AdamBeta2), "eps", AdamEps)
        ELSE st1

\* line 60: the copy of the defaults a call starts from
FreshDefaults(D) == JsonLoads(JsonDumps(D))

\* lines 54-130; D is the content of the module's DEFAULT_HYPERPARAMS when
\* the call is made
validate_hyperparams(D, payload) ==
    IF payload.kind = "other" THEN HpErr("ValueError")
    ELSE LET pl == IF payload.kind = "none" THEN HpDict(<<>>, "absent", <<>>, Absent)
                   ELSE payload
             result == FreshDefaults(D)
             t == MergeTop(pl, 1, result.top)
         IN  IF t.status # "ok" THEN HpErr(t.status)
             ELSE LET opt_in == IF pl.optKind = "dict" THEN MergeOptimizer(D, pl.opt)
                                ELSE result.optimizer
                      o == NormalizeOptimizer(D, opt_in)
                  IN  IF o.status # "ok" THEN HpErr(o.status)
                      ELSE HpOk([top |-> t.top, optimizer |-> o.cfg])

(***************************************************************************)
(* model_service.py: prepare_dataloaders, lines 38-45 (the sizes of the    *)
(* dataset and of its two parts; what follows hands them to torch)         *)
(***************************************************************************)
Max(a, b) == IF a >= b THEN a ELSE b

\* lines 38-39
TotalSamples(batch_size, max_samples) ==
    LET wanted == IF PyBool(max_samples) THEN max_samples
                  ELSE DEFAULT_HYPERPARAMS.top["max_samples"]
    IN  Max(2, Max(wanted.n, batch_size.n * 2))

\* int(len(dataset) * train_split): the product is a binary float, which
\* `slack` moves to a neighbouring integer when rounding crosses one
IntOfProduct(len, train_split, slack) ==
    IF train_split.d = 0
    THEN (IF train_split.n = 0 THEN Err("ValueError") ELSE Err("OverflowError"))
    ELSE Ok(IntV(Trunc(len * train_split.n, train_split.d) + slack))

ClampTrainLenNever(train_len, len) == train_len
\* lines 43-44
ClampTrainLen(train_len, len) == IF train_len >= len THEN len - 1 ELSE train_len

NoSplit == [status |-> "none", total |-> 0, train_len |-> 0, val_len |-> 0]

\* lines 38-45
prepare_dataloaders(batch_size, train_split, max_samples, slack) ==
    LET total_samples == TotalSamples(batch_size, max_samples)
        product       == IntOfProduct(total_samples, train_split, slack)
    IN  IF ~product.ok THEN [NoSplit EXCEPT !.status = product.err]
        ELSE LET train_len == ClampTrainLen(Max(1, product.v.n), total_samples)
                 val_len   == Max(1, total_samples - train_len)
             IN  [status |-> "ok", total |-> total_samples,
                  train_len |-> train_len, val_len |-> val_len]

(***************************************************************************)
(* Inputs of the architecture validator                                    *)
(***************************************************************************)
MaxLayers == 3

InputSizes == {Absent, IntV(8), IntV(0), IntV(-3), StrV("5"), NoneV, InfV}

LayerEntries ==
    { MkLayer(Absent, Absent, Absent),
      MkLayer(StrV("Linear"), Absent, IntV(2)),
      MkLayer(Absent, StrV("3"), Absent),
      MkLayer(StrV("linear"), IntV(4), FloatV(5, 2)),
      MkLayer(Absent, Absent, StrV("bad")),
      MkLayer(Absent, Absent, InfV),
      MkLayer(StrV("ReLU"), Absent, Absent),
      MkLayer(StrV("softmax"), IntV(4), Absent),
      MkLayer(StrV("Sigmoid"), Absent, Absent),
      MkLayer(StrV("tanh"), Absent, Absent),
      MkLayer(StrV("Swish"), Absent, Absent),
      MkLayer(IntV(7), Absent, IntV(2)),
      MkLayer(StrV("LINEAR"), NoneV, Absent),
      NonDict(IntV(5)) }

\* values of `layers` that are not a list of entries
OtherLayers == {Absent, NoneV, IntV(0), IntV(5), BoolV(TRUE), BoolV(FALSE),
                FloatV(5, 2), StrV(""), StrV("ab"), DictV}

\* p is one of the payloads the validator is run on
IsArchPayload(p) ==
    \/ \E isz \in InputSizes, m \in 0..MaxLayers :
          \E es \in [1..m -> LayerEntries] : p = MkArch(isz, SeqV, es)
    \/ \E isz \in InputSizes, lv \in OtherLayers : p = MkArch(isz, lv, <<>>)
    \/ \E v \in {NoneV, ListV, StrV("ab")} : p = NonDictArch(v)

(***************************************************************************)
(* Specification of the architecture path: validate_architecture on a      *)
(* payload, then build_model on its result and validate_architecture on    *)
(* its result again.                                                       *)
(***************************************************************************)
HpIdle   == hpIn = HpNonDict(NoneV) /\ hpOut = HpErr("none")
NoCall   == [batch_size |-> Absent, train_split |-> Absent, max_samples |-> Absent,
             slack |-> 0]
DlIdle   == dlIn = NoCall /\ dlOut = NoSplit
HeapIdle == heap = <<>> /\ results = <<>> /\ lastEmpty = HpErr("none")

InitArch ==
    /\ IsArchPayload(raw)
    /\ archOut = NotRun
    /\ reOut = NotRun
    /\ modelOut = NoModel
    /\ HpIdle /\ DlIdle /\ HeapIdle

ValidateArchitecture ==
    /\ archOut = NotRun
    /\ archOut' = validate_architecture(raw)
    /\ UNCHANGED <<raw, reOut, modelOut, hpVars, dlVars, heapVars>>

Revalidate ==
    /\ archOut.status = "ok"
    /\ reOut = NotRun
    /\ reOut' = validate_architecture(archOut.value)
    /\ UNCHANGED <<raw, archOut, modelOut, hpVars, dlVars, heapVars>>

BuildModel ==
    /\ archOut.status = "ok"
    /\ modelOut = NoModel
    /\ modelOut' = build_model(archOut.value)
    /\ UNCHANGED <<raw, archOut, reOut, hpVars, dlVars, heapVars>>

NextArch == ValidateArchitecture \/ Revalidate \/ BuildModel

SpecArch == InitArch /\ [][NextArch]_vars

(***************************************************************************)
(* Claims about the architecture path (checked under SpecArch)             *)
(***************************************************************************)
\* the raw layer items of a payload that was accepted
RawItems == IterLayers(raw).items

\* the `out` of the nearest linear layer before position i of the sanitized
\* list, or input_size when no linear layer precedes it
PrevLinearOut(out, i, isz) ==
    LET before == { j \in 1..(i - 1) : out[j].type = StrV("linear") }
    IN  IF before = {} THEN isz
        ELSE out[CHOOSE j \in before : \A j2 \in before : j2 <= j].out

\* C1: for every accepted raw architecture the result has the length and
\* order of the input; a linear layer that omits `in` gets the `out` of the
\* nearest preceding linear layer (input_size when there is none), one that
\* omits `out` gets out = in, given dimensions are the int() of what was
\* given, and any other layer is emitted as {type} alone.
C1_DimensionChaining ==
    archOut.status = "ok" =>
        LET out == archOut.value.elems
            isz == archOut.value.input_size
        IN  /\ Len(out) = Len(RawItems)
            /\ isz = PyInt(Get(raw.input_size, IntV(MNIST_INPUT_SIZE))).v
            /\ \A i \in 1..Len(RawItems) :
                 LET layer == RawItems[i] IN
                 IF PyLower(PyStr(Get(layer.type, StrV("linear")))) = "linear"
                 THEN /\ out[i].type = StrV("linear")
                      /\ out[i].in = (IF layer.in = Absent
                                      THEN PrevLinearOut(out, i, isz)
                                      ELSE PyInt(layer.in).v)
                      /\ out[i].out = (IF layer.out = Absent
                                       THEN out[i].in
                                       ELSE PyInt(layer.out).v)
                 ELSE out[i] = MkLayer(StrV(PyLower(PyStr(layer.type))), Absent, Absent)

\* a linear layer omitting in and out follows a non-linear layer that follows
\* a linear layer whose out differs from input_size
C1_Witness ==
    /\ archOut.status = "ok"
    /\ Len(RawItems) = 3
    /\ RawItems[1] = MkLayer(StrV("Linear"), Absent, IntV(2))
    /\ RawItems[2] = MkLayer(StrV("ReLU"), Absent, Absent)
    /\ RawItems[3] = MkLayer(Absent, Absent, Absent)
    /\ archOut.value.elems[3] = MkLayer(StrV("linear"), IntV(2), IntV(2))
    /\ archOut.value.input_size = IntV(8)

\* C2: every returned ArchitectureSpec has a non-empty layer sequence and an
\* integer input_size >= 1.
C2_InputSizeAtLeastOne ==
    archOut.status = "ok" =>
        /\ Len(archOut.value.elems) >= 1
        /\ IsInt(archOut.value.input_size)
        /\ archOut.value.input_size.n >= 1

\* a linear layer whose given in or out int() rejects
BadLinearDims(layer) ==
    /\ layer.isDict
    /\ LayerType(layer) = "linear"
    /\ \/ layer.in # Absent /\ ~PyInt(layer.in).ok
       \/ layer.out # Absent /\ ~PyInt(layer.out).ok

\* the malformed payloads of the validator's contract
Malformed(p) ==
    \/ ~p.isDict
    \/ p.layers = Absent
    \/ p.layers # SeqV
    \/ p.layers = SeqV /\ p.elems = <<>>
    \/ p.input_size # Absent /\ ~PyInt(p.input_size).ok
    \/ \E i \in 1..Len(p.elems) : ~p.elems[i].isDict
    \/ \E i \in 1..Len(p.elems) : BadLinearDims(p.elems[i])

\* C3: validate_architecture fails with ValueError (InvalidArchitecture), and
\* with nothing else, on every malformed payload.
C3_MalformedRaisesValueError ==
    (archOut # NotRun /\ Malformed(raw)) => archOut.status = "ValueError"

\* a payload that is a mapping with a non-empty list of mappings as layers
AllLayersMappings(p) ==
    /\ p.isDict
    /\ p.layers = SeqV
    /\ Len(p.elems) >= 1
    /\ \A i \in 1..Len(p.elems) : p.elems[i].isDict

\* the primitive build_model is to make of a layer type
PrimitiveOf(layer_type) ==
    CASE layer_type = "linear"  -> "Linear"
      [] layer_type = "relu"    -> "ReLU"
      [] layer_type = "sigmoid" -> "Sigmoid"
      [] layer_type = "tanh"    -> "Tanh"
      [] layer_type = "softmax" -> "Softmax"
      [] OTHER                  -> "unsupported"

C10_Idempotent ==
    reOut # NotRun => reOut = archOut

\* the result was validated again, and the first validation had changed the
\* payload (a dimension inferred and coerced, a type lower-cased)
C10_Witness ==
    /\ reOut.status = "ok"
    /\ raw # archOut.value
    /\ \E i \in 1..Len(raw.elems) :
         /\ raw.elems[i] = MkLayer(StrV("linear"), IntV(4), FloatV(5, 2))
         /\ reOut.value.elems[i] = MkLayer(StrV("linear"), IntV(4), IntV(2))
    /\ \E i \in 1..Len(raw.elems) : raw.elems[i].type = StrV("ReLU")

(***************************************************************************)
(* Inputs of the hyperparameter validator                                  *)
(***************************************************************************)
\* the most keys a payload overrides, top-level and optimizer keys together
MaxOverrides == 2

TopVals == {IntV(3), StrV("5"), FloatV(5, 2), StrV("bad"), NoneV, InfV, BigIntV}

OptKeys == {"type", "lr", "momentum", "beta1", "beta2", "eps", "tag"}

OptVals(key) ==
    CASE key = "type" -> {StrV("sgd"), StrV("Adam"), StrV("adam"), StrV("RMSprop"), NoneV}
      [] key = "tag"  -> {ListV, StrV("x")}
      [] OTHER        -> {FloatV(1, 2), IntV(3), StrV("0.01"), StrV("bad"), NoneV, BigIntV}

\* p is one of the payloads the validator is run on
IsHpPayload(p) ==
    \/ \E S \in SUBSET TopKeys, T \in SUBSET OptKeys :
          /\ Cardinality(S) + Cardinality(T) <= MaxOverrides
          /\ \E top \in [S -> TopVals], opt \in [T -> UNION { OptVals(key) : key \in T }] :
                /\ \A key \in T : opt[key] \in OptVals(key)
                /\ p = HpDict(top, "dict", opt, Absent)
    \/ \E S \in SUBSET TopKeys :
          /\ Cardinality(S) <= MaxOverrides
          /\ \E top \in [S -> TopVals] : p = HpDict(top, "absent", <<>>, Absent)
    \/ \E v \in {StrV("adam"), NoneV, ListV} : p = HpDict(<<>>, "other", <<>>, v)
    \/ \E v \in {NoneV, IntV(5), ListV} : p = HpNonDict(v)

(***************************************************************************)
(* Specification of the hyperparameter path: one call on a payload         *)
(***************************************************************************)
HpNotRun == HpErr("none")
ArchIdle == raw = NoArch /\ archOut = NotRun /\ reOut = NotRun /\ modelOut = NoModel

InitHp ==
    /\ IsHpPayload(hpIn)
    /\ hpOut = HpNotRun
    /\ ArchIdle /\ DlIdle /\ HeapIdle

ValidateHyperparams ==
    /\ hpOut = HpNotRun
    /\ hpOut' = validate_hyperparams(DEFAULT_HYPERPARAMS, hpIn)
    /\ UNCHANGED <<hpIn, archVars, dlVars, heapVars>>

NextHp == ValidateHyperparams

SpecHp == InitHp /\ [][NextHp]_vars

(***************************************************************************)
(* Claims about the hyperparameter validator (checked under SpecHp)        *)
(***************************************************************************)
\* C4: every returned record has all eight fields with their types, and its
\* optimizer record has lr and momentum as floats when its type is sgd, and
\* lr, beta1, beta2 and eps as floats when its type is adam.
C4_AllFieldsPresentAndTyped ==
    hpOut.status = "ok" =>
        LET h == hpOut.value
            floats(keys) == \A key \in keys :
                              key \in DOMAIN h.optimizer /\ IsFloat(h.optimizer[key])
        IN  /\ DOMAIN h.top = TopKeys
            /\ IsInt(h.top["epochs"])
            /\ IsInt(h.top["batch_size"])
            /\ IsStr(h.top["loss"])
            /\ (h.top["seed"] = NoneV \/ IsInt(h.top["seed"]))
            /\ IsFloat(h.top["train_split"])
            /\ IsBool(h.top["shuffle"])
            /\ IsInt(h.top["max_samples"])
            /\ "type" \in DOMAIN h.optimizer
            /\ IsStr(h.optimizer["type"])
            /\ h.optimizer["type"] = StrV("sgd") => floats({"lr", "momentum"})
            /\ h.optimizer["type"] = StrV("adam") => floats({"lr", "beta1", "beta2", "eps"})

\* the top-level keys of the payload whose value its numeric type rejects
UncoercibleTop(p) ==
    { key \in DOMAIN p.top :
        \/ key \in {"epochs", "batch_size", "max_samples"} /\ ~PyInt(p.top[key]).ok
        \/ key = "train_split" /\ ~PyFloat(p.top[key]).ok
        \/ key = "seed" /\ p.top[key] # NoneV /\ ~PyInt(p.top[key]).ok }

\* the numeric sub-fields of the optimizer variant the payload asks for
VariantFields(p) ==
    LET ty == PyLower(PyStr(IF "type" \in DOMAIN p.opt THEN p.opt["type"]
                            ELSE StrV("sgd")))
    IN  CASE ty = "sgd"  -> {"lr", "momentum"}
          [] ty = "adam" -> {"lr", "beta1", "beta2", "eps"}
          [] OTHER       -> {"lr"}

\* the optimizer sub-fields of the payload that float() rejects
UncoercibleOpt(p) ==
    IF p.optKind # "dict" THEN {}
    ELSE { key \in DOMAIN p.opt \cap VariantFields(p) : ~PyFloat(p.opt[key]).ok }

\* the documented default of an optimizer sub-field
OptDefault(key) ==
    CASE key = "lr"       -> FloatV(1, 10)
      [] key = "momentum" -> FloatV(0, 1)
      [] key = "beta1"    -> FloatV(9, 10)
      [] key = "beta2"    -> FloatV(999, 1000)
      [] key = "eps"      -> FloatV(1, 100000000)

\* C5: a top-level epochs, batch_size, max_samples, train_split or non-null
\* seed that cannot be coerced makes the call fail with ValueError
\* (InvalidHyperparams); an optimizer sub-field that cannot be coerced to
\* float never makes the call fail and is replaced by its default.
C5_StrictTopTolerantOptimizer ==
    (hpOut # HpNotRun /\ hpIn.kind = "dict") =>
        /\ UncoercibleTop(hpIn) # {} => hpOut.status = "ValueError"
        /\ (UncoercibleTop(hpIn) = {} /\ UncoercibleOpt(hpIn) # {}) =>
              /\ hpOut.status = "ok"
              /\ \A key \in UncoercibleOpt(hpIn) :
                    hpOut.value.optimizer[key] = OptDefault(key)

\* C6: validate_hyperparams(None) and validate_hyperparams({}) both succeed
\* and return the Defaults record, field by field, nested optimizer included.
C6_NoneAndEmptyGiveDefaults ==
    (hpOut # HpNotRun /\ hpIn \in {HpNonDict(NoneV), HpDict(<<>>, "absent", <<>>, Absent)}) =>
        hpOut = HpOk(DEFAULT_HYPERPARAMS)

\* the call on None has returned
C6_Witness ==
    /\ hpIn = HpNonDict(NoneV)
    /\ hpOut.status = "ok"
    /\ hpOut.value.optimizer = DEFAULT_HYPERPARAMS.optimizer

(***************************************************************************)
(* Specification of the data preparer: one call on its arguments           *)
(***************************************************************************)
MaxBatch == 3
MaxSmallSamples == 3
SplitDen == 4

BatchSizes == { IntV(i) : i \in (-MaxBatch..MaxBatch) \cup {64, 2049, 3000} }

MaxSamplesVals == {NoneV} \cup { IntV(i) : i \in (-2..MaxSmallSamples) \cup {4096, 5000} }

TrainSplits == { FloatV(a, SplitDen) : a \in -1..(SplitDen + 1) }
               \cup {FloatV(9, 10), FloatV(-7, 2), FloatV(1, 100000000), InfV, NanV}

InitDl ==
    /\ dlIn \in [batch_size : BatchSizes, train_split : TrainSplits,
                 max_samples : MaxSamplesVals, slack : {-1, 0, 1}]
    /\ dlOut = NoSplit
    /\ ArchIdle /\ HpIdle /\ HeapIdle

PrepareDataloaders ==
    /\ dlOut = NoSplit
    /\ dlOut' = prepare_dataloaders(dlIn.batch_size, dlIn.train_split,
                                    dlIn.max_samples, dlIn.slack)
    /\ UNCHANGED <<dlIn, archVars, hpVars, heapVars>>

NextDl == PrepareDataloaders

SpecDl == InitDl /\ [][NextDl]_vars

\* C7: for every batch_size, max_samples and train_split for which a split
\* is computed, total_samples = max(2, max(max_samples or 4096, 2 * batch_size)),
\* train_len + val_len = total_samples, train_len >= 1 and val_len >= 1.
C7_SplitCoversDataset ==
    dlOut.status = "ok" =>
        LET ms == IF dlIn.max_samples = NoneV \/ dlIn.max_samples = IntV(0)
                  THEN 4096 ELSE dlIn.max_samples.n
            bs2 == 2 * dlIn.batch_size.n
            big == IF ms >= bs2 THEN ms ELSE bs2
        IN  /\ dlOut.total = (IF big >= 2 THEN big ELSE 2)
            /\ dlOut.train_len + dlOut.val_len = dlOut.total
            /\ dlOut.train_len >= 1
            /\ dlOut.val_len >= 1

\* a train_split >= 1 had train_len clamped to total - 1, with the total
\* raised to the floor of 2 from a negative max_samples and batch_size
C7_Witness ==
    /\ dlOut.status = "ok"
    /\ dlIn.train_split = FloatV(SplitDen + 1, SplitDen)
    /\ dlIn.max_samples = IntV(-2)
    /\ dlIn.batch_size = IntV(-1)
    /\ dlOut.total = 2
    /\ dlOut.train_len = 1
    /\ dlOut.val_len = 1

(***************************************************************************)
(* Specification of validate_hyperparams as calls on objects: the module's *)
(* DEFAULT_HYPERPARAMS, the records the calls return, and what the caller  *)
(* does to those records afterwards.                                       *)
(*                                                                         *)
(* heap[a] is the content of the object at address a.  A record's          *)
(* "optimizer" key holds a reference to its optimizer mapping.             *)
(***************************************************************************)
MaxCalls == 2
MaxAppend == 1

\* a reference to the object at address a
RefV(a) == [k |-> "ref", n |-> a, d |-> 1, s |-> "[]"]

\* DEFAULT_HYPERPARAMS (line 4) and its nested optimizer mapping (line 7)
DefTop == 1
DefOpt == DefTop + 1
\* a list the caller owns and puts in payloads
CallerList == DefOpt + 1

\* the object a record with content h is, its optimizer being at address o
TopObject(h, o) ==
    [key \in TopKeys \cup {"optimizer"} |->
        IF key = "optimizer" THEN RefV(o) ELSE h.top[key]]

OptAddr(h, t) == h[t]["optimizer"].n

\* the content of the record at address t
Deref(h, t) ==
    [top |-> [key \in TopKeys |-> h[t][key]], optimizer |-> h[OptAddr(h, t)]]

ResultOptAddrShared(h, payload) ==
    IF payload.optKind = "dict" THEN Len(h) + 2 ELSE DefOpt
\* the address of the mapping that becomes result["optimizer"]: the nested
\* mapping of the json copy (line 60), or the dict() made on line 104
ResultOptAddr(h, payload) == Len(h) + 2

\* the heap after a call that returns `value`: the record and its optimizer
\* mapping are written where the call made them
Allocate(h, payload, value) ==
    LET t  == Len(h) + 1
        o  == ResultOptAddr(h, payload)
        h1 == h \o <<TopObject(value, o), value.optimizer>>
    IN  [h1 EXCEPT ![o] = value.optimizer]

HeapPayloads ==
    { HpNonDict(NoneV),
      HpDict(<<>>, "absent", <<>>, Absent),
      HpDict(<<>>, "dict", <<>>, Absent),
      HpDict(<<>>, "other", <<>>, StrV("adam")),
      HpDict([epochs |-> StrV("bad")], "absent", <<>>, Absent),
      HpDict(<<>>, "dict", [lr |-> RefV(CallerList)], Absent),
      HpDict(<<>>, "dict", [tag |-> RefV(CallerList)], Absent),
      HpDict(<<>>, "dict", [type |-> StrV("Adam"), momentum |-> RefV(CallerList)], Absent) }

IsEmptyPayload(payload) == payload = HpDict(<<>>, "absent", <<>>, Absent)

InitHeap ==
    /\ heap = <<TopObject(DEFAULT_HYPERPARAMS, DefOpt), DEFAULT_HYPERPARAMS.optimizer,
                [len |-> IntV(0)]>>
    /\ results = <<>>
    /\ lastEmpty = HpNotRun
    /\ ArchIdle /\ HpIdle /\ DlIdle

\* one call of validate_hyperparams
Call ==
    \E payload \in HeapPayloads :
        LET out == validate_hyperparams(Deref(heap, DefTop), payload) IN
        /\ Len(results) < MaxCalls
        /\ IF out.status = "ok"
           THEN /\ heap' = Allocate(heap, payload, out.value)
                /\ results' = Append(results, Len(heap) + 1)
           ELSE UNCHANGED <<heap, results>>
        /\ lastEmpty' = IF IsEmptyPayload(payload) THEN out ELSE lastEmpty
        /\ UNCHANGED <<archVars, hpVars, dlVars>>

\* the caller assigns to a key of a record it was returned
MutateResult ==
    \E r \in 1..Len(results) :
        /\ heap' = [heap EXCEPT ![results[r]]["epochs"] = IntV(99)]
        /\ lastEmpty' = HpNotRun
        /\ UNCHANGED <<results, archVars, hpVars, dlVars>>

\* the caller assigns to a key of the optimizer mapping of such a record
MutateOptimizer ==
    \E r \in 1..Len(results) :
        /\ heap' = [heap EXCEPT ![OptAddr(heap, results[r])]["lr"] = StrV("mutated")]
        /\ lastEmpty' = HpNotRun
        /\ UNCHANGED <<results, archVars, hpVars, dlVars>>

\* the caller appends to a list held by the optimizer mapping of such a record
MutateNested ==
    \E r \in 1..Len(results) :
        \E key \in DOMAIN heap[OptAddr(heap, results[r])] :
            LET v == heap[OptAddr(heap, results[r])][key] IN
            /\ v.k = "ref"
            /\ heap[v.n]["len"].n < MaxAppend
            /\ heap' = [heap EXCEPT ![v.n]["len"] = IntV(@.n + 1)]
            /\ lastEmpty' = HpNotRun
            /\ UNCHANGED <<results, archVars, hpVars, dlVars>>

NextHeap == Call \/ MutateResult \/ MutateOptimizer \/ MutateNested

SpecHeap == InitHeap /\ [][NextHeap]_vars

\* DEFAULT_HYPERPARAMS holds what the module wrote in it
DefaultsIntact ==
    /\ Deref(heap, DefTop) = DEFAULT_HYPERPARAMS
    /\ OptAddr(heap, DefTop) = DefOpt

\* the mutable objects reachable from the record at address t
Reach(t) ==
    {t, OptAddr(heap, t)}
    \cup { heap[OptAddr(heap, t)][key].n :
             key \in { x \in DOMAIN heap[OptAddr(heap, t)] :
                         heap[OptAddr(heap, t)][x].k = "ref" } }

\* the record at address t and its optimizer mapping
Own(t) == {t, OptAddr(heap, t)}

\* C8 as stated: whatever the calls and the caller's mutations, the defaults
\* are unchanged, no returned result shares a mutable object with the
\* defaults or with another call's result, and validate_hyperparams({})
\* returns the defaults.
C8_NoSharedMutableState ==
    /\ DefaultsIntact
    /\ \A r \in 1..Len(results) : Reach(results[r]) \cap Reach(DefTop) = {}
    /\ \A r1, r2 \in 1..Len(results) :
         r1 # r2 => Reach(results[r1]) \cap Reach(results[r2]) = {}
    /\ lastEmpty \in {HpNotRun, HpOk(DEFAULT_HYPERPARAMS)}

\* C8 amended: the defaults are unchanged, the record and the optimizer
\* mapping of every result are objects of that result alone, the only object
\* two results can share is one the caller passed in a payload, and
\* validate_hyperparams({}) returns the defaults.
C8_FreshRecords ==
    /\ DefaultsIntact
    /\ \A r \in 1..Len(results) : Reach(results[r]) \cap Reach(DefTop) = {}
    /\ \A r1, r2 \in 1..Len(results) :
         r1 # r2 =>
            /\ Own(results[r1]) \cap Reach(results[r2]) = {}
            /\ Reach(results[r1]) \cap Reach(results[r2]) \subseteq {CallerList}
    /\ lastEmpty \in {HpNotRun, HpOk(DEFAULT_HYPERPARAMS)}

\* a record and its optimizer mapping were mutated, and a call on {} made
\* after that returned a second record holding the defaults
C8_Witness ==
    /\ Len(results) = 2
    /\ heap[results[1]]["epochs"] = IntV(99)
    /\ heap[OptAddr(heap, results[1])]["lr"] = StrV("mutated")
    /\ lastEmpty = HpOk(DEFAULT_HYPERPARAMS)
    /\ Deref(heap, results[2]) = DEFAULT_HYPERPARAMS

====
